---- MODULE Spec2Model ----
(***************************************************************************)
(* Local Food Donation Dashboard (src/app.py): the data-access layer.      *)
(*                                                                         *)
(* State: the four tables of the relational store, and the process-wide    *)
(* read cache that st.cache_data(ttl=60) keeps for q.  Operations: the     *)
(* cached read q and the reads built on it (get_filtered_food_listings,    *)
(* the sidebar option lists, the analysis dispatch), the transactional     *)
(* write exec_write and the CRUD buttons built on it, load_csv_if_empty.   *)
(*                                                                         *)
(* The script is re-run top to bottom on every interaction; each read and  *)
(* each button handler is one step here, in any order, which covers every  *)
(* order the re-runs can produce.                                          *)
(*                                                                         *)
(* The table definitions (keys, foreign key, cascade) are not in app.py:   *)
(* they are taken from the specification's data model (UniqueKey,          *)
(* ForeignKey, OnDeleteCascade, SchemaOK below).                           *)
(***************************************************************************)
EXTENDS Integers, Sequences, FiniteSets, Bags, TLC

VARIABLES
    providers,      \* table providers: a set of rows
    food_listings,  \* table food_listings: a set of rows
    claims,         \* table claims: a set of rows
    receivers,      \* table receivers: a bag of rows (no key declared)
    cache,          \* st.cache_data's entries for q: [key, res, age]
    calls,          \* history: per key, the last result q returned and how long ago
    gone,           \* history: provider_ids deleted and not stored again
    pre,            \* history: the store before the last operation
    ret             \* the last operation: what was called and what came back

vars == <<providers, food_listings, claims, receivers, cache, calls, gone, pre, ret>>

-----------------------------------------------------------------------------
(* Bounds of the model *)

MaxProviderId == 2
MaxFoodId == 2
MaxQty == 1
MaxCacheEntries == 1
MaxRows == 2
\* seconds that pass in one Tick
TickStep == 30

\* @st.cache_data(ttl=60)
TTL == 60

All == "(All)"

ProviderIds == 1..MaxProviderId
FoodIds == 1..MaxFoodId
ClaimIds == {1}
Quantities == 0..MaxQty

\* lexicographic order of the strings used as city and provider name
Cities == <<"Agra", "Delhi">>
Names == <<"Asha", "Bina">>
FoodTypes == {"Vegetarian", "Vegan"}
MealTypes == {"Lunch", "Dinner"}

Range(s) == {s[i] : i \in DOMAIN s}

Min(a, b) == IF a < b THEN a ELSE b

\* what the Providers form can submit besides the id
ProviderForms ==
    { [name |-> "Asha", type |-> "Restaurant", address |-> "a1", city |-> "Agra", contact |-> "c1"],
      [name |-> "Bina", type |-> "Bakery", address |-> "a2", city |-> "Delhi", contact |-> "c2"] }

\* what the Food Listings form can submit besides id, quantity and provider id
ListingForms ==
    { [food_name |-> "Rice", expiry_date |-> 1, provider_type |-> "Restaurant",
       location |-> "Agra", food_type |-> "Vegetarian", meal_type |-> "Lunch"],
      [food_name |-> "Bread", expiry_date |-> 2, provider_type |-> "Bakery",
       location |-> "Delhi", food_type |-> "Vegan", meal_type |-> "Dinner"] }

\* the listings saved while the filtered view is watched: two that expire the
\* same day with different quantities, and a later one with the larger quantity
ViewForms ==
    { [food_name |-> "Rice", quantity |-> MaxQty, expiry_date |-> 1, provider_id |-> 1,
       provider_type |-> "Restaurant", location |-> "Agra", food_type |-> "Vegetarian",
       meal_type |-> "Lunch"],
      [food_name |-> "Bread", quantity |-> 0, expiry_date |-> 1, provider_id |-> 2,
       provider_type |-> "Bakery", location |-> "Delhi", food_type |-> "Vegan",
       meal_type |-> "Dinner"],
      [food_name |-> "Soup", quantity |-> MaxQty, expiry_date |-> 2, provider_id |-> 1,
       provider_type |-> "Restaurant", location |-> "Agra", food_type |-> "Vegan",
       meal_type |-> "Lunch"] }

ClaimForms ==
    { [food_id |-> 1, receiver_id |-> 1, status |-> "Pending", timestamp |-> 1] }

ProviderRow(id, f) ==
    [provider_id |-> id, name |-> f.name, type |-> f.type, address |-> f.address,
     city |-> f.city, contact |-> f.contact]

ListingRow(id, qty, pid, f) ==
    [food_id |-> id, food_name |-> f.food_name, quantity |-> qty,
     expiry_date |-> f.expiry_date, provider_id |-> pid,
     provider_type |-> f.provider_type, location |-> f.location,
     food_type |-> f.food_type, meal_type |-> f.meal_type]

ClaimRow(id, f) ==
    [claim_id |-> id, food_id |-> f.food_id, receiver_id |-> f.receiver_id,
     status |-> f.status, timestamp |-> f.timestamp]

-----------------------------------------------------------------------------
(* The store *)

DB == [providers |-> providers, food_listings |-> food_listings,
       claims |-> claims, receivers |-> receivers]

\* a key column: no two rows of the table share its value
UniqueKey(rows, k) == \A r1 \in rows : \A r2 \in rows : r1[k] = r2[k] => r1 = r2

\* food_listings.provider_id references providers.provider_id
ForeignKey(db) ==
    \A l \in db.food_listings : \E p \in db.providers : p.provider_id = l.provider_id

\* the constraints every committed statement must leave satisfied
SchemaOK(db) ==
    /\ UniqueKey(db.providers, "provider_id")
    /\ UniqueKey(db.food_listings, "food_id")
    /\ UniqueKey(db.claims, "claim_id")
    /\ ForeignKey(db)

\* ON DELETE CASCADE of the foreign key: the listings of the deleted providers go
OnDeleteCascade(db, ids) ==
    [db EXCEPT !.food_listings = {l \in @ : l.provider_id \notin ids}]

-----------------------------------------------------------------------------
(* The statements of the CRUD forms, as functions of the store *)

upsert_provider_nothing(db, p) ==
    IF \E r \in db.providers : r.provider_id = p.provider_id
    THEN db
    ELSE [db EXCEPT !.providers = @ \cup {p}]

\* INSERT INTO providers ... ON CONFLICT (provider_id) DO UPDATE SET name, type, address, city, contact
upsert_provider(db, p) ==
    IF \E r \in db.providers : r.provider_id = p.provider_id
    THEN [db EXCEPT !.providers =
            { IF r.provider_id = p.provider_id
              THEN [r EXCEPT !.name = p.name, !.type = p.type, !.address = p.address,
                             !.city = p.city, !.contact = p.contact]
              ELSE r : r \in @ }]
    ELSE [db EXCEPT !.providers = @ \cup {p}]

delete_provider_all(db, id) ==
    OnDeleteCascade([db EXCEPT !.providers = {}],
                    {r.provider_id : r \in db.providers})

\* DELETE FROM providers WHERE provider_id=:id
delete_provider(db, id) ==
    OnDeleteCascade([db EXCEPT !.providers = {r \in @ : r.provider_id # id}],
                    {r.provider_id : r \in {x \in db.providers : x.provider_id = id}})

\* INSERT INTO food_listings ... ON CONFLICT (food_id) DO UPDATE SET <the eight other columns>
upsert_listing(db, l) ==
    IF \E r \in db.food_listings : r.food_id = l.food_id
    THEN [db EXCEPT !.food_listings =
            { IF r.food_id = l.food_id
              THEN [r EXCEPT !.food_name = l.food_name, !.quantity = l.quantity,
                             !.expiry_date = l.expiry_date, !.provider_id = l.provider_id,
                             !.provider_type = l.provider_type, !.location = l.location,
                             !.food_type = l.food_type, !.meal_type = l.meal_type]
              ELSE r : r \in @ }]
    ELSE [db EXCEPT !.food_listings = @ \cup {l}]

update_quantity_row(db, id, qty) ==
    [db EXCEPT !.food_listings =
        { IF r.food_id = id
          THEN [r EXCEPT !.quantity = qty, !.expiry_date = 1]
          ELSE r : r \in @ }]

\* UPDATE food_listings SET quantity=:q WHERE food_id=:id
update_quantity(db, id, qty) ==
    [db EXCEPT !.food_listings =
        { IF r.food_id = id THEN [r EXCEPT !.quantity = qty] ELSE r : r \in @ }]

\* DELETE FROM food_listings WHERE food_id=:id
delete_listing(db, id) ==
    [db EXCEPT !.food_listings = {r \in @ : r.food_id # id}]

\* INSERT INTO claims ... ON CONFLICT (claim_id) DO UPDATE SET food_id, receiver_id, status, timestamp
upsert_claim(db, c) ==
    IF \E r \in db.claims : r.claim_id = c.claim_id
    THEN [db EXCEPT !.claims =
            { IF r.claim_id = c.claim_id
              THEN [r EXCEPT !.food_id = c.food_id, !.receiver_id = c.receiver_id,
                             !.status = c.status, !.timestamp = c.timestamp]
              ELSE r : r \in @ }]
    ELSE [db EXCEPT !.claims = @ \cup {c}]

\* DELETE FROM claims WHERE claim_id=:id
delete_claim(db, id) ==
    [db EXCEPT !.claims = {r \in @ : r.claim_id # id}]

-----------------------------------------------------------------------------
(* exec_write: one statement in one transaction *)

Committed(db) ==
    /\ providers' = db.providers
    /\ food_listings' = db.food_listings
    /\ claims' = db.claims
    /\ receivers' = db.receivers

exec_write_unchecked(db, op, arg) ==
    /\ Committed(db)
    /\ ret' = [op |-> op, arg |-> arg, reads |-> <<>>, err |-> FALSE]
    /\ UNCHANGED cache

\* with engine.begin() as conn: conn.execute(...): commit, or roll back and raise.
\* db is the store the statement produces.
exec_write(db, op, arg) ==
    /\ IF SchemaOK(db)
       THEN /\ Committed(db)
            /\ ret' = [op |-> op, arg |-> arg, reads |-> <<>>, err |-> FALSE]
       ELSE /\ UNCHANGED <<providers, food_listings, claims, receivers>>
            /\ ret' = [op |-> op, arg |-> arg, reads |-> <<>>, err |-> TRUE]
    /\ UNCHANGED cache

-----------------------------------------------------------------------------
(* The CRUD buttons *)

SaveProvider(p) == exec_write(upsert_provider(DB, p), "SaveProvider", p)

DeleteProvider(id) == exec_write(delete_provider(DB, id), "DeleteProvider", id)

SaveListing(l) == exec_write(upsert_listing(DB, l), "SaveListing", l)

UpdateQuantity(id, qty) ==
    exec_write(update_quantity(DB, id, qty), "UpdateQuantity", <<id, qty>>)

DeleteListing(id) == exec_write(delete_listing(DB, id), "DeleteListing", id)

SaveClaim(c) == exec_write(upsert_claim(DB, c), "SaveClaim", c)

DeleteClaim(id) == exec_write(delete_claim(DB, id), "DeleteClaim", id)

-----------------------------------------------------------------------------
(* The statements q is called with: a key is the statement text and the bound *)
(* parameters, which is what st.cache_data hashes.                            *)

NoParams == [d \in {} |-> ""]

Dims == <<"city", "provider", "food_type", "meal_type">>

\* the sidebar's four selections: "(All)" or a value
Selections ==
    [city : {All} \cup Range(Cities), provider : {All} \cup Range(Names),
     food_type : {All} \cup FoodTypes, meal_type : {All} \cup MealTypes]

FilterKeyNoMeal(sel) ==
    [sql |-> <<"listings">> \o SelectSeq(SubSeq(Dims, 1, 3), LAMBDA d : sel[d] # All),
     params |-> [d \in {x \in Range(SubSeq(Dims, 1, 3)) : sel[x] # All} |-> sel[d]]]

\* get_filtered_food_listings, lines 81-102: one AND clause and one bound
\* parameter per selection that is not "(All)", in the order city, provider,
\* food_type, meal_type, then the ORDER BY
FilterKey(sel) ==
    [sql |-> <<"listings">> \o SelectSeq(Dims, LAMBDA d : sel[d] # All),
     params |-> [d \in {x \in Range(Dims) : sel[x] # All} |-> sel[d]]]

\* FROM food_listings fl JOIN providers p ON p.provider_id = fl.provider_id, and the SELECT list
JoinRows(db) ==
    { [food_id |-> x[1].food_id, food_name |-> x[1].food_name, quantity |-> x[1].quantity,
       expiry_date |-> x[1].expiry_date, city |-> x[1].location,
       food_type |-> x[1].food_type, meal_type |-> x[1].meal_type,
       provider_id |-> x[2].provider_id, provider_name |-> x[2].name,
       provider_contact |-> x[2].contact]
      : x \in {y \in db.food_listings \X db.providers : y[2].provider_id = y[1].provider_id} }

\* the column each AND clause compares: fl.location, p.name, fl.food_type, fl.meal_type
ClauseColumn(row, d) ==
    CASE d = "city" -> row.city
      [] d = "provider" -> row.provider_name
      [] d = "food_type" -> row.food_type
      [] d = "meal_type" -> row.meal_type

\* WHERE 1=1 AND ...
Where(rows, key) ==
    {r \in rows : \A i \in 2..Len(key.sql) : ClauseColumn(r, key.sql[i]) = key.params[key.sql[i]]}

\* ORDER BY fl.expiry_date ASC, fl.quantity DESC
ListingBefore(a, b) ==
    \/ a.expiry_date < b.expiry_date
    \/ a.expiry_date = b.expiry_date /\ a.quantity > b.quantity

\* every order of the rows that ORDER BY allows (ties in any order)
OrderBy(rows, Before(_, _)) ==
    {s \in [1..Cardinality(rows) -> rows] :
        /\ \A i \in DOMAIN s : \A j \in DOMAIN s : s[i] = s[j] => i = j
        /\ \A i \in DOMAIN s : \A j \in DOMAIN s : i < j => ~Before(s[j], s[i])}

Rank(seq, v) == CHOOSE i \in DOMAIN seq : seq[i] = v

CitySet(db) == {r.city : r \in db.providers} \cup {l.location : l \in db.food_listings}

\* SELECT DISTINCT city FROM providers UNION SELECT DISTINCT location AS city
\* FROM food_listings ORDER BY city
CitiesQuery(db) ==
    { [i \in DOMAIN s |-> [city |-> s[i]]]
      : s \in {SelectSeq(Cities, LAMBDA c : c \in CitySet(db))} }

\* SELECT DISTINCT name FROM providers ORDER BY name
NamesQuery(db) ==
    { [i \in DOMAIN s |-> [name |-> s[i]]]
      : s \in {SelectSeq(Names, LAMBDA n : n \in {r.name : r \in db.providers})} }

TableSize(db, t) ==
    CASE t = "providers" -> Cardinality(db.providers)
      [] t = "food_listings" -> Cardinality(db.food_listings)
      [] t = "claims" -> Cardinality(db.claims)
      [] t = "receivers" -> BagCardinality(db.receivers)

\* SELECT COUNT(*) AS cnt FROM {table_name}
CountQuery(db, t) == { <<[cnt |-> TableSize(db, t)]>> }

NameBefore(a, b) == Rank(Names, a.name) < Rank(Names, b.name)

\* SELECT name, contact FROM providers WHERE city = :city ORDER BY name
ContactsByCity(db, city) ==
    { [i \in DOMAIN s |-> [name |-> s[i].name, contact |-> s[i].contact]]
      : s \in OrderBy({r \in db.providers : r.city = city}, NameBefore) }

CityCount(db) ==
    { [city |-> c, provider_count |-> Cardinality({r \in db.providers : r.city = c})]
      : c \in {r.city : r \in db.providers} }

CountBefore(a, b) == a.provider_count > b.provider_count

\* SELECT city, COUNT(*) AS provider_count FROM providers GROUP BY city
\* ORDER BY provider_count DESC
ProvidersPerCity(db) == OrderBy(CityCount(db), CountBefore)

\* the results the database can give for a statement: read_sql(text(sql), conn, params)
Execute(key, db) ==
    CASE key.sql[1] = "listings" -> OrderBy(Where(JoinRows(db), key), ListingBefore)
      [] key.sql[1] = "cities" -> CitiesQuery(db)
      [] key.sql[1] = "names" -> NamesQuery(db)
      [] key.sql[1] = "count" -> CountQuery(db, key.sql[2])
      [] key.sql[1] = "Provider contacts by city" -> ContactsByCity(db, key.params["city"])
      [] key.sql[1] = "Providers per city" -> ProvidersPerCity(db)

-----------------------------------------------------------------------------
(* q: the read behind st.cache_data(ttl=60) *)

LiveForever(e) == TRUE

\* an entry is served until ttl seconds after it was stored
Live(e) == e.age < TTL

\* q(sql, params) on cache c and store db: the results it can return, each with
\* the cache it leaves.  A live entry is returned as stored; otherwise the
\* statement is run and its result stored under the key.
q(c, key, db) ==
    IF \E e \in c : e.key = key /\ Live(e)
    THEN { [res |-> e.res, cache |-> c] : e \in {x \in c : x.key = key /\ Live(x)} }
    ELSE { [res |-> r,
            cache |-> {x \in c : x.key # key} \cup {[key |-> key, res |-> r, age |-> 0]}]
           : r \in Execute(key, db) }

Aged(e, d) == [e EXCEPT !.age = Min(@ + d, TTL)]

\* d seconds pass: entries grow older, and the expired ones are dropped
Tick(d) ==
    /\ cache' = {Aged(e, d) : e \in {x \in cache : Live(Aged(x, d))}}
    /\ ret' = [op |-> "Tick", arg |-> d, reads |-> <<>>, err |-> FALSE]
    /\ UNCHANGED <<providers, food_listings, claims, receivers>>

\* listings = get_filtered_food_listings(city, provider, food_type, meal_type)
get_filtered_food_listings(sel) ==
    \E o \in q(cache, FilterKey(sel), DB) :
        /\ cache' = o.cache
        /\ ret' = [op |-> "get_filtered_food_listings", arg |-> sel,
                   reads |-> <<[key |-> FilterKey(sel), res |-> o.res]>>,
                   res |-> o.res, err |-> FALSE]
        /\ UNCHANGED <<providers, food_listings, claims, receivers>>

\* provider_names_df = q('SELECT DISTINCT name FROM providers ORDER BY name;')
provider_names ==
    \E o \in q(cache, [sql |-> <<"names">>, params |-> NoParams], DB) :
        /\ cache' = o.cache
        /\ ret' = [op |-> "provider_names", arg |-> <<>>,
                   reads |-> <<[key |-> [sql |-> <<"names">>, params |-> NoParams],
                                res |-> o.res]>>,
                   res |-> o.res, err |-> FALSE]
        /\ UNCHANGED <<providers, food_listings, claims, receivers>>

-----------------------------------------------------------------------------
(* The analysis dispatch *)

ByCity == "Provider contacts by city"

\* the analyses of query_map that the model runs
Analyses == {ByCity, "Providers per city"}

AnalysisKeyLast(chosen, city, cities) ==
    IF chosen = ByCity
    THEN [sql |-> <<chosen>>,
          params |-> [d \in {"city"} |->
                        IF city # All THEN city
                        ELSE IF cities # <<>> THEN cities[Len(cities)] ELSE ""]]
    ELSE [sql |-> <<chosen>>, params |-> NoParams]

\* lines 137-140: the statement and parameters handed to q
AnalysisKey(chosen, city, cities) ==
    IF chosen = ByCity
    THEN [sql |-> <<chosen>>,
          params |-> [d \in {"city"} |->
                        IF city # All THEN city
                        ELSE IF cities # <<>> THEN cities[1] ELSE ""]]
    ELSE [sql |-> <<chosen>>, params |-> NoParams]

\* one run of the script up to the analysis: the city options (lines 60-62),
\* the selected city, the chosen analysis (lines 136-140)
run_analysis(chosen, city) ==
    \E o1 \in q(cache, [sql |-> <<"cities">>, params |-> NoParams], DB) :
        LET cities == [i \in DOMAIN o1.res |-> o1.res[i].city]
            key == AnalysisKey(chosen, city, cities)
        IN  /\ city \in {All} \cup Range(cities)
            /\ \E o2 \in q(o1.cache, key, DB) :
                 /\ cache' = o2.cache
                 /\ ret' = [op |-> "run_analysis", arg |-> <<chosen, city>>,
                            cities |-> cities,
                            reads |-> <<[key |-> [sql |-> <<"cities">>, params |-> NoParams],
                                         res |-> o1.res],
                                        [key |-> key, res |-> o2.res]>>,
                            res |-> o2.res, err |-> FALSE]
            /\ UNCHANGED <<providers, food_listings, claims, receivers>>

-----------------------------------------------------------------------------
(* The bootstrap: load_csv_if_empty *)

Tables == {"providers", "receivers", "food_listings", "claims"}

\* pd.read_csv(csv_file): the rows of the table's file
CsvRows(t) ==
    CASE t = "providers" ->
           { ProviderRow(1, [name |-> "Asha", type |-> "Restaurant", address |-> "a1",
                             city |-> "Agra", contact |-> "c1"]) }
      [] t = "food_listings" ->
           { ListingRow(1, 1, 1, [food_name |-> "Rice", expiry_date |-> 1,
                                  provider_type |-> "Restaurant", location |-> "Agra",
                                  food_type |-> "Vegetarian", meal_type |-> "Lunch"]) }
      [] t = "claims" ->
           { ClaimRow(1, [food_id |-> 1, receiver_id |-> 1, status |-> "Pending",
                          timestamp |-> 1]) }
      [] t = "receivers" ->
           { [receiver_id |-> 1, name |-> "Ravi", city |-> "Agra", contact |-> "r1"] }

KeyOf(t) ==
    CASE t = "providers" -> "provider_id"
      [] t = "food_listings" -> "food_id"
      [] t = "claims" -> "claim_id"

\* df.to_sql(table_name, engine, if_exists="append", index=False): the store
\* after the INSERTs, and whether they violate a key
Appended(db, t) ==
    IF t = "receivers"
    THEN [db |-> [db EXCEPT !.receivers = @ (+) SetToBag(CsvRows(t))], clash |-> FALSE]
    ELSE [db |-> [db EXCEPT ![t] = @ \cup CsvRows(t)],
          clash |-> \E r \in db[t] : \E c \in CsvRows(t) : r[KeyOf(t)] = c[KeyOf(t)]]

\* load_csv_if_empty(table_name, csv_file)
load_csv_if_empty(t) ==
    \E o \in q(cache, [sql |-> <<"count", t>>, params |-> NoParams], DB) :
        LET count == o.res[1].cnt
            new == Appended(DB, t)
            reads == <<[key |-> [sql |-> <<"count", t>>, params |-> NoParams],
                        res |-> o.res]>>
        IN  /\ cache' = o.cache
            /\ IF count # 0
               THEN /\ UNCHANGED <<providers, food_listings, claims, receivers>>
                    /\ ret' = [op |-> "load_csv_if_empty", arg |-> t, reads |-> reads,
                               count |-> count, appended |-> FALSE, err |-> FALSE]
               ELSE IF ~new.clash /\ SchemaOK(new.db)
               THEN /\ Committed(new.db)
                    /\ ret' = [op |-> "load_csv_if_empty", arg |-> t, reads |-> reads,
                               count |-> count, appended |-> TRUE, err |-> FALSE]
               ELSE /\ UNCHANGED <<providers, food_listings, claims, receivers>>
                    /\ ret' = [op |-> "load_csv_if_empty", arg |-> t, reads |-> reads,
                               count |-> count, appended |-> FALSE, err |-> TRUE]

-----------------------------------------------------------------------------
(* Initial state and the history variables *)

\* the store and the cache as an operation finds them
Snapshot == [providers |-> providers, food_listings |-> food_listings,
             claims |-> claims, receivers |-> receivers, cache |-> cache, calls |-> calls]

StoreOf(s) == [providers |-> s.providers, food_listings |-> s.food_listings,
               claims |-> s.claims, receivers |-> s.receivers]

\* the store starts empty: the bootstrap and the forms fill it
Init ==
    /\ providers = {}
    /\ food_listings = {}
    /\ claims = {}
    /\ receivers = EmptyBag
    /\ cache = {}
    /\ calls = {}
    /\ gone = {}
    /\ pre = Snapshot
    /\ ret = [op |-> "start", arg |-> <<>>, reads |-> <<>>, err |-> FALSE]

\* calls after an operation: each key it read maps to the result returned, 0 s
\* ago; on a Tick the others grow older and are forgotten after TTL seconds
Recorded(r) ==
    LET keys == {r.reads[i].key : i \in DOMAIN r.reads}
        step == IF r.op = "Tick" THEN r.arg ELSE 0
    IN  {[c EXCEPT !.since = @ + step] :
            c \in {x \in calls : x.key \notin keys /\ x.since + step < TTL}}
        \cup {[key |-> r.reads[i].key, res |-> r.reads[i].res, since |-> 0] : i \in DOMAIN r.reads}

\* gone after an operation: the provider_ids that Delete Provider removed,
\* until a provider with that id is stored again
Removed(r) ==
    (gone \cup (IF r.op = "DeleteProvider" /\ ~r.err
                THEN {p.provider_id : p \in {x \in providers : x.provider_id = r.arg}}
                ELSE {}))
      \ {p.provider_id : p \in providers'}

-----------------------------------------------------------------------------
(* The CRUD forms alone.  pre records what each operation started from. *)

Crud(A) == A /\ pre' = Snapshot /\ UNCHANGED <<calls, gone>>

NextCrud ==
    \/ \E id \in ProviderIds : \E f \in ProviderForms :
         Crud(SaveProvider(ProviderRow(id, f)))
    \/ \E id \in ProviderIds : Crud(DeleteProvider(id))
    \/ \E id \in FoodIds : \E qty \in Quantities : \E pid \in 1..(MaxProviderId + 1) :
         \E f \in ListingForms : Crud(SaveListing(ListingRow(id, qty, pid, f)))
    \/ \E id \in FoodIds : \E qty \in Quantities : Crud(UpdateQuantity(id, qty))
    \/ \E id \in FoodIds : Crud(DeleteListing(id))
    \/ \E id \in ClaimIds : \E f \in ClaimForms : Crud(SaveClaim(ClaimRow(id, f)))
    \/ \E id \in ClaimIds : Crud(DeleteClaim(id))

SpecCrud == Init /\ [][NextCrud]_vars

-----------------------------------------------------------------------------
(* The filtered view: the listing query under every selection, the writes *)
(* that change what it shows, and time.  At most MaxCacheEntries selections *)
(* are cached at a time: a further selection waits for an entry to expire.  *)

View(A) == A /\ gone' = Removed(ret') /\ UNCHANGED <<pre, calls>>

HasRoom(key) ==
    \/ \E e \in cache : e.key = key
    \/ Cardinality(cache) < MaxCacheEntries

NextView ==
    \/ View(Tick(TTL))
    \/ \E sel \in Selections :
         HasRoom(FilterKey(sel)) /\ View(get_filtered_food_listings(sel))
    \/ \E id \in ProviderIds : \E f \in ProviderForms :
         View(SaveProvider(ProviderRow(id, f)))
    \/ \E id \in ProviderIds : View(DeleteProvider(id))
    \/ \E id \in FoodIds : \E f \in ViewForms :
         View(SaveListing(ListingRow(id, f.quantity, f.provider_id, f)))

SpecView == Init /\ [][NextView]_vars

-----------------------------------------------------------------------------
(* The analysis dispatch with the writes that change the city options *)

Plain(A) == A /\ UNCHANGED <<pre, calls, gone>>

NextAnalysis ==
    \/ Plain(Tick(TTL))
    \/ \E chosen \in Analyses : \E city \in {All} \cup Range(Cities) :
         Plain(run_analysis(chosen, city))
    \/ \E id \in ProviderIds : \E f \in ProviderForms :
         Plain(SaveProvider(ProviderRow(id, f)))
    \/ \E id \in ProviderIds : Plain(DeleteProvider(id))
    \/ \E id \in FoodIds : \E f \in ViewForms :
         Plain(SaveListing(ListingRow(id, f.quantity, f.provider_id, f)))

SpecAnalysis == Init /\ [][NextAnalysis]_vars

-----------------------------------------------------------------------------
(* The cache under reads, writes and time.  calls records what each key *)
(* last returned.                                                        *)

Hist(A) == A /\ calls' = Recorded(ret') /\ UNCHANGED <<pre, gone>>

NextCache ==
    \/ Hist(Tick(TickStep))
    \/ Hist(provider_names)
    \/ \E id \in ProviderIds : \E f \in ProviderForms :
         Hist(SaveProvider(ProviderRow(id, f)))
    \/ \E id \in ProviderIds : Hist(DeleteProvider(id))

SpecCache == Init /\ [][NextCache]_vars

-----------------------------------------------------------------------------
(* The bootstrap, the deletes that empty a table again, and time.  The *)
(* bootstrap stops at MaxRows receivers.                               *)

NextBootstrap ==
    \/ Crud(Tick(TickStep))
    \/ \E t \in Tables :
         Crud(load_csv_if_empty(t)) /\ BagCardinality(receivers') <= MaxRows
    \/ \E id \in ProviderIds : Crud(DeleteProvider(id))
    \/ \E id \in FoodIds : Crud(DeleteListing(id))
    \/ \E id \in ClaimIds : Crud(DeleteClaim(id))

SpecBootstrap == Init /\ [][NextBootstrap]_vars

-----------------------------------------------------------------------------
(* Every operation *)

Full(A) == A /\ pre' = Snapshot /\ calls' = Recorded(ret') /\ gone' = Removed(ret')

Next ==
    \/ \E d \in {TickStep, TTL} : Full(Tick(d))
    \/ \E sel \in Selections :
         HasRoom(FilterKey(sel)) /\ Full(get_filtered_food_listings(sel))
    \/ Full(provider_names)
    \/ \E chosen \in Analyses : \E city \in {All} \cup Range(Cities) :
         Full(run_analysis(chosen, city))
    \/ \E t \in Tables :
         Full(load_csv_if_empty(t)) /\ BagCardinality(receivers') <= MaxRows
    \/ \E id \in ProviderIds : \E f \in ProviderForms :
         Full(SaveProvider(ProviderRow(id, f)))
    \/ \E id \in ProviderIds : Full(DeleteProvider(id))
    \/ \E id \in FoodIds : \E qty \in Quantities : \E pid \in 1..(MaxProviderId + 1) :
         \E f \in ListingForms : Full(SaveListing(ListingRow(id, qty, pid, f)))
    \/ \E id \in FoodIds : \E qty \in Quantities : Full(UpdateQuantity(id, qty))
    \/ \E id \in FoodIds : Full(DeleteListing(id))
    \/ \E id \in ClaimIds : \E f \in ClaimForms : Full(SaveClaim(ClaimRow(id, f)))
    \/ \E id \in ClaimIds : Full(DeleteClaim(id))

Spec == Init /\ [][Next]_vars

-----------------------------------------------------------------------------
(* Properties of the CRUD forms (SpecCrud) *)

HasProvider(rows, id) == \E r \in rows : r.provider_id = id

\* C2: Save Provider on an existing provider_id replaces name, type, address, city
\* and contact of that row and keeps the number of provider rows; on a new
\* provider_id it adds exactly one row; no two provider rows ever share a
\* provider_id.
C2_UpsertProvider ==
    /\ \A r1 \in providers : \A r2 \in providers :
         r1.provider_id = r2.provider_id => r1 = r2
    /\ ret.op = "SaveProvider" =>
         LET p == ret.arg IN
         /\ ~ret.err
         /\ \E r \in providers :
              /\ r.provider_id = p.provider_id
              /\ r.name = p.name /\ r.type = p.type /\ r.address = p.address
              /\ r.city = p.city /\ r.contact = p.contact
         /\ Cardinality(providers) =
              IF HasProvider(pre.providers, p.provider_id)
              THEN Cardinality(pre.providers)
              ELSE Cardinality(pre.providers) + 1
         /\ \A r \in pre.providers : r.provider_id # p.provider_id => r \in providers

\* C2's case: a save hit an existing row whose five columns all differed
C2_Witness ==
    /\ ret.op = "SaveProvider"
    /\ Cardinality(providers) = 2
    /\ \E o \in pre.providers :
         /\ o.provider_id = ret.arg.provider_id
         /\ o.name # ret.arg.name /\ o.type # ret.arg.type /\ o.address # ret.arg.address
         /\ o.city # ret.arg.city /\ o.contact # ret.arg.contact

\* C3: Delete Provider removes the provider row and exactly the food listings
\* that provider owned (none, one or several); the listings of other providers stay.
C3_DeleteCascade ==
    ret.op = "DeleteProvider" =>
        /\ ~ret.err
        /\ providers = {r \in pre.providers : r.provider_id # ret.arg}
        /\ \A l \in pre.food_listings : l.provider_id = ret.arg => l \notin food_listings
        /\ \A l \in pre.food_listings : l.provider_id # ret.arg => l \in food_listings
        /\ food_listings \subseteq pre.food_listings
        /\ Cardinality(food_listings) =
             Cardinality(pre.food_listings)
               - Cardinality({l \in pre.food_listings : l.provider_id = ret.arg})

\* C3's case: the deleted provider owned more than one listing
C3_Witness ==
    /\ ret.op = "DeleteProvider"
    /\ HasProvider(pre.providers, ret.arg)
    /\ Cardinality({l \in pre.food_listings : l.provider_id = ret.arg}) > 1
    /\ food_listings = {}

\* C4: Update Quantity changes only the quantity column of the listing with the
\* given food_id: its other columns, the other listings and the other tables
\* stay as they were, and nothing changes when no listing has that food_id.
C4_UpdateQuantityFrame ==
    ret.op = "UpdateQuantity" =>
        LET id == ret.arg[1]
            qty == ret.arg[2]
        IN  /\ ~ret.err
            /\ providers = pre.providers
            /\ claims = pre.claims
            /\ receivers = pre.receivers
            /\ Cardinality(food_listings) = Cardinality(pre.food_listings)
            /\ \A o \in pre.food_listings : o.food_id # id => o \in food_listings
            /\ \A o \in pre.food_listings : o.food_id = id =>
                 \E r \in food_listings :
                    /\ r.food_id = id
                    /\ r.quantity = qty
                    /\ r.food_name = o.food_name /\ r.expiry_date = o.expiry_date
                    /\ r.provider_id = o.provider_id /\ r.provider_type = o.provider_type
                    /\ r.location = o.location /\ r.food_type = o.food_type
                    /\ r.meal_type = o.meal_type
            /\ (\A o \in pre.food_listings : o.food_id # id) => DB = StoreOf(pre)

\* C4's case: the quantity of one of two listings was changed
C4_Witness ==
    /\ ret.op = "UpdateQuantity"
    /\ Cardinality(food_listings) = 2
    /\ \E o \in pre.food_listings :
         o.food_id = ret.arg[1] /\ o.quantity # ret.arg[2] /\ o.expiry_date = 2

\* C6: Save Listing with a provider_id that no provider row has fails and leaves
\* every table unchanged, whether the food_id is new or already exists.
C6_SaveListingBadProvider ==
    (ret.op = "SaveListing" /\ ~HasProvider(pre.providers, ret.arg.provider_id)) =>
        /\ ret.err
        /\ DB = StoreOf(pre)

\* C6's case: the conflict-update path, with a provider_id that does not exist
C6_Witness ==
    /\ ret.op = "SaveListing"
    /\ ~HasProvider(pre.providers, ret.arg.provider_id)
    /\ \E o \in pre.food_listings : o.food_id = ret.arg.food_id /\ o # ret.arg

-----------------------------------------------------------------------------
(* Properties of the reads *)

IsLive(c, key) == \E e \in c : e.key = key /\ e.age < TTL

Matches(row, sel) ==
    /\ sel.city # All => row.city = sel.city
    /\ sel.provider # All => row.provider_name = sel.provider
    /\ sel.food_type # All => row.food_type = sel.food_type
    /\ sel.meal_type # All => row.meal_type = sel.meal_type

\* C1: for every selection of city, provider, food_type and meal_type,
\* get_filtered_food_listings returns only rows that satisfy the equality of
\* every dimension that is not "(All)", has no condition for a dimension that is
\* "(All)" (a call that runs the statement returns every joined row that
\* satisfies the others), and returns the rows by expiry_date ascending, then
\* quantity descending.
C1_FilteredListings ==
    [][ret'.op = "get_filtered_food_listings" =>
          LET sel == ret'.arg
              res == ret'.res
              key == ret'.reads[1].key
          IN  /\ \A i \in DOMAIN res : Matches(res[i], sel)
              /\ \A i \in DOMAIN res : \A j \in DOMAIN res :
                   i < j => \/ res[i].expiry_date < res[j].expiry_date
                            \/ /\ res[i].expiry_date = res[j].expiry_date
                               /\ res[i].quantity >= res[j].quantity
              /\ DOMAIN key.params = {d \in Range(Dims) : sel[d] # All}
              /\ Len(key.sql) = 1 + Cardinality(DOMAIN key.params)
              /\ ~IsLive(cache, key) =>
                   /\ {res[i] : i \in DOMAIN res} = {r \in JoinRows(DB) : Matches(r, sel)}
                   /\ Len(res) = Cardinality({r \in JoinRows(DB) : Matches(r, sel)})
       ]_vars

\* C1's case: under a selection with one dimension set, two rows came back, the
\* one that expires first ahead of the one with the larger quantity
C1_Witness ==
    /\ ret.op = "get_filtered_food_listings"
    /\ ret.arg = [city |-> All, provider |-> All, food_type |-> "Vegan", meal_type |-> All]
    /\ Len(ret.res) = 2
    /\ ret.res[1].expiry_date < ret.res[2].expiry_date
    /\ ret.res[1].quantity < ret.res[2].quantity

C8_AnalysisCityParam ==
    ret.op = "run_analysis" =>
        LET chosen == ret.arg[1]
            city == ret.arg[2]
            key == ret.reads[2].key
        IN  /\ key.sql = <<chosen>>
            /\ chosen = "Provider contacts by city" =>
                 /\ DOMAIN key.params = {"city"}
                 /\ city # All => key.params["city"] = city
                 /\ (city = All /\ Len(ret.cities) > 0) => key.params["city"] = Head(ret.cities)
                 /\ (city = All /\ Len(ret.cities) = 0) => key.params["city"] = ""
            /\ chosen # "Provider contacts by city" => DOMAIN key.params = {}

\* C8's case: no city selected, two options: the first option is bound
C8_Witness ==
    /\ ret.op = "run_analysis"
    /\ ret.arg = <<"Provider contacts by city", All>>
    /\ ret.cities = <<"Agra", "Delhi">>
    /\ ret.reads[2].key.params["city"] = "Agra"
    /\ Len(ret.res) > 0

WriteOps ==
    {"SaveProvider", "DeleteProvider", "SaveListing", "UpdateQuantity", "DeleteListing",
     "SaveClaim", "DeleteClaim"}

\* C5 as claimed: two calls of q with the same statement and parameters less
\* than 60 s apart return the same result.
C5_SameWithinSixty ==
    [][\A i \in DOMAIN ret'.reads : \A c \in calls :
          (c.key = ret'.reads[i].key /\ c.since < TTL) => ret'.reads[i].res = c.res
      ]_vars

\* C5: a call of q made less than 60 s after a result for the same statement and
\* parameters was stored returns that result, whatever was written since (so
\* two calls in that window agree); a call made when no such entry is left
\* returns the current contents of the table; no write changes the cache.
C5_CachedUntilExpiry ==
    [][/\ \A i \in DOMAIN ret'.reads :
            LET key == ret'.reads[i].key
                res == ret'.reads[i].res
            IN  IF IsLive(cache, key)
                THEN /\ \A e \in cache : e.key = key => res = e.res
                     /\ \A c \in calls : c.key = key => res = c.res
                ELSE res \in Execute(key, DB)
       /\ ret'.op \in WriteOps => cache' = cache
      ]_vars

\* C5's case: a call returned the cached names after a write had changed them
C5_Witness ==
    /\ ret.op = "provider_names"
    /\ ret.res \notin Execute(ret.reads[1].key, DB)
    /\ providers # {}

\* C9 as claimed: load_csv_if_empty on a table that is not empty leaves the
\* store unchanged, so repeated calls load the CSV rows once.
C9_LoadOnlyIfEmpty ==
    (ret.op = "load_csv_if_empty" /\ TableSize(StoreOf(pre), ret.arg) > 0) =>
        DB = StoreOf(pre)

====
